---- MODULE Spec2Model ----
(***************************************************************************)
(* Model of the scene crate (src/src/scene.rs): a Slab of reference        *)
(* counted entries, the two deferred queues (grabs, releases) shared with  *)
(* every strong handle, the strong and weak handles, and the collection    *)
(* pass that reconciles the queues with the table.                         *)
(***************************************************************************)
EXTENDS Integers, Sequences, FiniteSets, Bags, TLC

\* Bounds of the model.
MaxInserts == 2   \* calls of Scene::insert in one run
MaxHandles == 3   \* strong handles (Id) constructed in one run
MaxWeak == 2      \* weak handles (WeakId) constructed in one run

VARIABLES
    entries,    \* Scene.slab: the slab's entry vector (index k is entries[k+1])
    next,       \* Scene.slab: head of the slab's vacant list
    grabs,      \* State.grabs  (SegQueue<usize>)
    releases,   \* State.releases (SegQueue<usize>)
    events,     \* Scene.events (Vec<E>)
    ids,        \* the live strong handles, a bag of Id values
    weaks,      \* the live weak handles, a bag of WeakId values
    gc,         \* where the owner stands: "idle", in a pass ("grabs", "releases"), "dropped"
    fatal,      \* "none", or the panic that ended the run
    ret,        \* the last call: its name, its argument and what it returned
    log,        \* history: every event ever pushed to Scene.events
    grabsEnq,   \* history: per index, grabs pushed since the index was last inserted
    relsEnq,    \* history: per index, releases pushed since the index was last inserted
    made        \* history: number of Id values constructed so far

vars == <<entries, next, grabs, releases, events, ids, weaks, gc, fatal, ret,
          log, grabsEnq, relsEnq, made>>

Indices == 0 .. (MaxInserts - 1)

\* Identity of an Arc<State> allocation: the one of the modelled Scene, and the
\* one of some other Scene instance.
SceneState == "state_of_this_scene"
OtherState == "state_of_another_scene"

-----------------------------------------------------------------------------
(* Entry<T>                                                                *)

Entry(t, r) == [data |-> t, refs |-> r]

\* Entry::grab with the increment lost.
Entry_grab_lost(e) == e

\* Entry::grab
Entry_grab(e) == [e EXCEPT !.refs = @ + 1]

\* Entry::release reporting zero one release too early.
Entry_release_early(e) ==
    IF e.refs = 0
    THEN [entry |-> e, zero |-> FALSE, overflow |-> TRUE]
    ELSE [entry |-> [e EXCEPT !.refs = @ - 1],
          zero |-> (e.refs - 1 <= 1),
          overflow |-> FALSE]

\* Entry::release with the flag computed before the decrement.
Entry_release_late(e) ==
    IF e.refs = 0
    THEN [entry |-> e, zero |-> FALSE, overflow |-> TRUE]
    ELSE [entry |-> [e EXCEPT !.refs = @ - 1],
          zero |-> (e.refs = 0),
          overflow |-> FALSE]

\* Entry::release: the entry after the decrement and the returned flag.
\* refs is a usize: decrementing 0 is an arithmetic overflow.
Entry_release(e) ==
    IF e.refs = 0
    THEN [entry |-> e, zero |-> FALSE, overflow |-> TRUE]
    ELSE [entry |-> [e EXCEPT !.refs = @ - 1],
          zero |-> (e.refs - 1 = 0),
          overflow |-> FALSE]

\* Drop for Entry: the assertion refs == 0 holds.
Entry_drop(e) == e.refs = 0

-----------------------------------------------------------------------------
(* Slab<Entry<T>>: a vector of Occupied/Vacant cells and the head `next`   *)
(* of the list of vacant cells (next = length when no cell is vacant).     *)

Occupied(e) == [tag |-> "Occupied", val |-> e]
Vacant(n) == [tag |-> "Vacant", next |-> n]

\* Slab::get(key).is_some()
SlabContains(es, key) ==
    /\ key + 1 \in DOMAIN es
    /\ es[key + 1].tag = "Occupied"

\* Slab::get(key).unwrap()
SlabGet(es, key) == es[key + 1].val

\* Slab::insert that never takes a vacant cell.
SlabInsert_append(es, nx, e) ==
    [entries |-> Append(es, Occupied(e)),
     next |-> IF nx = Len(es) THEN nx + 1 ELSE nx,
     key |-> Len(es)]

\* Slab::insert(val): the key is the head of the vacant list.
SlabInsert(es, nx, e) ==
    IF nx = Len(es)
    THEN [entries |-> Append(es, Occupied(e)), next |-> nx + 1, key |-> nx]
    ELSE [entries |-> [es EXCEPT ![nx + 1] = Occupied(e)],
          next |-> es[nx + 1].next,
          key |-> nx]

\* Slab::remove(key): the cell becomes the head of the vacant list.
SlabRemove(es, nx, key) ==
    [entries |-> [es EXCEPT ![key + 1] = Vacant(nx)], next |-> key]

-----------------------------------------------------------------------------
(* Event                                                                   *)

EventNew(i) == [type |-> "New", id |-> i]
EventDrop(i) == [type |-> "Drop", id |-> i]

(* Id<T> and WeakId<T>: the Arc/Weak identity and the index; obj records   *)
(* the payload of the entry the handle was made for.                       *)

Id(s, i, o) == [state |-> s, index |-> i, obj |-> o]
WeakId(s, i, o) == [state |-> s, index |-> i, obj |-> o]

LiveIds == BagToSet(ids)
LiveWeaks == BagToSet(weaks)

\* Handles issued by another Scene instance.
ForeignIds == {Id(OtherState, i, 0) : i \in Indices}

\* No handle: the argument of a call that takes none, the result None.
NoId == [state |-> "none", index |-> 0, obj |-> 0]

\* A bare index passed as an argument.
Arg(i) == [state |-> "none", index |-> i, obj |-> 0]

\* A call's record: arg is the handle (or index) passed, found tells whether
\* the call returned a value, out is the handle (or the view of an entry:
\* its index and payload) returned.
Ret(op, arg, found, out) == [op |-> op, arg |-> arg, found |-> found, out |-> out]

-----------------------------------------------------------------------------
(* Scene::garbage_collect on the part of the state it touches.             *)

Store == [entries |-> entries, next |-> next, grabs |-> grabs,
          releases |-> releases, events |-> events, log |-> log,
          fatal |-> fatal]

\* One iteration of the first loop: pop a grab and apply it.
GrabStep(st) ==
    LET id == Head(st.grabs)
        popped == [st EXCEPT !.grabs = Tail(@)]
    IN  IF ~SlabContains(st.entries, id)
        THEN [popped EXCEPT !.fatal = "unwrap_none"]
        ELSE [popped EXCEPT
                 !.entries[id + 1] = Occupied(Entry_grab(SlabGet(st.entries, id)))]

\* The removal of an entry without its Drop event.
RemoveEntry_silent(st, id) ==
    LET s == SlabRemove(st.entries, st.next, id)
    IN  [st EXCEPT !.entries = s.entries, !.next = s.next]

\* The removal of an entry with its Drop event pushed twice.
RemoveEntry_twice(st, id) ==
    LET s == SlabRemove(st.entries, st.next, id)
    IN  [st EXCEPT !.entries = s.entries,
                   !.next = s.next,
                   !.events = Append(Append(@, EventDrop(id)), EventDrop(id)),
                   !.log = Append(Append(@, EventDrop(id)), EventDrop(id))]

\* The body of the `if` of the second loop: the entry is removed from the
\* slab and dropped at the end of that statement (Drop for Entry asserts its
\* count is zero), then its Drop event is pushed.
RemoveEntry(st, id) ==
    LET s == SlabRemove(st.entries, st.next, id)
        removed == [st EXCEPT !.entries = s.entries, !.next = s.next]
    IN  IF ~Entry_drop(SlabGet(st.entries, id))
        THEN [removed EXCEPT !.fatal = "assert_refs_zero"]
        ELSE [removed EXCEPT !.events = Append(@, EventDrop(id)),
                             !.log = Append(@, EventDrop(id))]

\* One iteration of the second loop: pop a release and apply it; an entry
\* whose count reached zero is removed and its Drop event pushed.
ReleaseStep(st) ==
    LET id == Head(st.releases)
        popped == [st EXCEPT !.releases = Tail(@)]
    IN  IF ~SlabContains(st.entries, id)
        THEN [popped EXCEPT !.fatal = "unwrap_none"]
        ELSE LET r == Entry_release(SlabGet(st.entries, id))
             IN  IF r.overflow
                 THEN [popped EXCEPT !.fatal = "sub_overflow"]
                 ELSE LET released ==
                              [popped EXCEPT !.entries[id + 1] = Occupied(r.entry)]
                      IN  IF r.zero THEN RemoveEntry(released, id) ELSE released

RECURSIVE DrainGrabs(_)
DrainGrabs(st) ==
    IF st.fatal # "none" \/ st.grabs = <<>>
    THEN st
    ELSE DrainGrabs(GrabStep(st))

\* The second loop as an `if let`: at most one release per pass.
DrainReleases_once(st) ==
    IF st.fatal # "none" \/ st.releases = <<>>
    THEN st
    ELSE ReleaseStep(st)

RECURSIVE DrainReleases(_)
DrainReleases(st) ==
    IF st.fatal # "none" \/ st.releases = <<>>
    THEN st
    ELSE DrainReleases(ReleaseStep(st))

\* The whole pass with nothing running beside it.
Collect(st) == DrainReleases(DrainGrabs(st))

SetStore(st) ==
    /\ entries' = st.entries
    /\ next' = st.next
    /\ grabs' = st.grabs
    /\ releases' = st.releases
    /\ events' = st.events
    /\ log' = st.log
    /\ fatal' = st.fatal

Running == fatal = "none"
OwnerFree == Running /\ gc = "idle"

-----------------------------------------------------------------------------
Init ==
    /\ entries = <<>>
    /\ next = 0
    /\ grabs = <<>>
    /\ releases = <<>>
    /\ events = <<>>
    /\ ids = EmptyBag
    /\ weaks = EmptyBag
    /\ gc = "idle"
    /\ fatal = "none"
    /\ ret = Ret("new", NoId, FALSE, NoId)
    /\ log = <<>>
    /\ grabsEnq = [i \in Indices |-> 0]
    /\ relsEnq = [i \in Indices |-> 0]
    /\ made = 0

NumInserted == Cardinality({k \in DOMAIN log : log[k].type = "New"})

\* Scene::insert(t); the payload of the n-th insertion is n.
Insert ==
    /\ OwnerFree
    /\ NumInserted < MaxInserts
    /\ made < MaxHandles
    /\ LET t == NumInserted + 1
           s == SlabInsert(entries, next, Entry(t, 1))
       IN  /\ entries' = s.entries
           /\ next' = s.next
           /\ events' = Append(events, EventNew(s.key))
           /\ log' = Append(log, EventNew(s.key))
           /\ ids' = ids (+) SetToBag({Id(SceneState, s.key, t)})
           /\ ret' = Ret("insert", NoId, TRUE, Id(SceneState, s.key, t))
           /\ grabsEnq' = [grabsEnq EXCEPT ![s.key] = 0]
           /\ relsEnq' = [relsEnq EXCEPT ![s.key] = 0]
    /\ made' = made + 1
    /\ UNCHANGED <<grabs, releases, weaks, gc, fatal>>

\* Scene::garbage_collect, run to its end with no other thread active.
GarbageCollect ==
    /\ OwnerFree
    /\ SetStore(Collect(Store))
    /\ ret' = Ret("garbage_collect", NoId, FALSE, NoId)
    /\ UNCHANGED <<ids, weaks, gc, grabsEnq, relsEnq, made>>

\* Id::clone
IdClone(h) ==
    /\ Running
    /\ made < MaxHandles
    /\ grabs' = Append(grabs, h.index)
    /\ ids' = ids (+) SetToBag({Id(h.state, h.index, h.obj)})
    /\ grabsEnq' = [grabsEnq EXCEPT ![h.index] = @ + 1]
    /\ made' = made + 1
    /\ ret' = Ret("clone", h, TRUE, Id(h.state, h.index, h.obj))
    /\ UNCHANGED <<entries, next, releases, events, weaks, gc, fatal, log, relsEnq>>

\* Drop for Id with the index pushed to the wrong queue.
IdDrop_wrongQueue(h) ==
    /\ Running
    /\ grabs' = Append(grabs, h.index)
    /\ ids' = ids (-) SetToBag({h})
    /\ relsEnq' = [relsEnq EXCEPT ![h.index] = @ + 1]
    /\ ret' = Ret("drop", h, FALSE, NoId)
    /\ UNCHANGED <<entries, next, releases, events, weaks, gc, fatal, log, grabsEnq, made>>

\* Drop for Id
IdDrop(h) ==
    /\ Running
    /\ releases' = Append(releases, h.index)
    /\ ids' = ids (-) SetToBag({h})
    /\ relsEnq' = [relsEnq EXCEPT ![h.index] = @ + 1]
    /\ ret' = Ret("drop", h, FALSE, NoId)
    /\ UNCHANGED <<entries, next, grabs, events, weaks, gc, fatal, log, grabsEnq, made>>

\* Scene::id with the grab pushed before the slab is looked at.
SceneId_eager(index) ==
    /\ OwnerFree
    /\ grabs' = Append(grabs, index)
    /\ grabsEnq' = [grabsEnq EXCEPT ![index] = @ + 1]
    /\ IF SlabContains(entries, index)
       THEN /\ made < MaxHandles
            /\ ids' = ids (+) SetToBag({Id(SceneState, index, SlabGet(entries, index).data)})
            /\ made' = made + 1
            /\ ret' = Ret("id", Arg(index), TRUE,
                           Id(SceneState, index, SlabGet(entries, index).data))
       ELSE /\ ret' = Ret("id", Arg(index), FALSE, NoId)
            /\ UNCHANGED <<ids, made>>
    /\ UNCHANGED <<entries, next, releases, events, weaks, gc, fatal, log, relsEnq>>

\* Scene::id(index)
SceneId(index) ==
    /\ OwnerFree
    /\ IF SlabContains(entries, index)
       THEN /\ made < MaxHandles
            /\ grabs' = Append(grabs, index)
            /\ ids' = ids (+) SetToBag({Id(SceneState, index, SlabGet(entries, index).data)})
            /\ grabsEnq' = [grabsEnq EXCEPT ![index] = @ + 1]
            /\ made' = made + 1
            /\ ret' = Ret("id", Arg(index), TRUE,
                           Id(SceneState, index, SlabGet(entries, index).data))
       ELSE /\ ret' = Ret("id", Arg(index), FALSE, NoId)
            /\ UNCHANGED <<grabs, ids, grabsEnq, made>>
    /\ UNCHANGED <<entries, next, releases, events, weaks, gc, fatal, log, relsEnq>>

\* The lookup with the identity assertion left out.
Lookup_unasserted(op, h) ==
    /\ OwnerFree
    /\ IF ~SlabContains(entries, h.index)
       THEN /\ fatal' = "unwrap_none"
            /\ ret' = Ret(op, h, FALSE, NoId)
       ELSE /\ fatal' = fatal
            /\ ret' = Ret(op, h, TRUE,
                           Id(h.state, h.index, SlabGet(entries, h.index).data))
    /\ UNCHANGED <<entries, next, grabs, releases, events, ids, weaks, gc, log,
                   grabsEnq, relsEnq, made>>

\* The body shared by Scene::get and Scene::get_mut: the identity assertion,
\* then the lookup of the handle's index, unwrapped.
Lookup(op, h) ==
    /\ OwnerFree
    /\ IF h.state # SceneState
       THEN /\ fatal' = "assert_ptr_eq"
            /\ ret' = Ret(op, h, FALSE, NoId)
       ELSE IF ~SlabContains(entries, h.index)
       THEN /\ fatal' = "unwrap_none"
            /\ ret' = Ret(op, h, FALSE, NoId)
       ELSE /\ fatal' = fatal
            /\ ret' = Ret(op, h, TRUE,
                           Id(h.state, h.index, SlabGet(entries, h.index).data))
    /\ UNCHANGED <<entries, next, grabs, releases, events, ids, weaks, gc, log,
                   grabsEnq, relsEnq, made>>

\* Scene::get(id)
Get(h) == Lookup("get", h)

\* Scene::get_mut(id)
GetMut(h) == Lookup("get_mut", h)

\* Scene::clear_events
ClearEvents ==
    /\ OwnerFree
    /\ events' = <<>>
    /\ ret' = Ret("clear_events", NoId, FALSE, NoId)
    /\ UNCHANGED <<entries, next, grabs, releases, ids, weaks, gc, fatal, log,
                   grabsEnq, relsEnq, made>>

WeakCount == BagCardinality(weaks)

\* Id::downgrade
IdDowngrade(h) ==
    /\ Running
    /\ WeakCount < MaxWeak
    /\ weaks' = weaks (+) SetToBag({WeakId(h.state, h.index, h.obj)})
    /\ ret' = Ret("downgrade", h, TRUE, WeakId(h.state, h.index, h.obj))
    /\ UNCHANGED <<entries, next, grabs, releases, events, ids, gc, fatal, log,
                   grabsEnq, relsEnq, made>>

\* WeakId::clone
WeakIdClone(w) ==
    /\ Running
    /\ WeakCount < MaxWeak
    /\ weaks' = weaks (+) SetToBag({WeakId(w.state, w.index, w.obj)})
    /\ ret' = Ret("weak_clone", w, TRUE, WeakId(w.state, w.index, w.obj))
    /\ UNCHANGED <<entries, next, grabs, releases, events, ids, gc, fatal, log,
                   grabsEnq, relsEnq, made>>

\* WeakId::upgrade with the slab never looked at.
WeakIdUpgrade_unchecked(w) ==
    /\ OwnerFree
    /\ made < MaxHandles
    /\ ids' = ids (+) SetToBag({Id(w.state, w.index, w.obj)})
    /\ made' = made + 1
    /\ ret' = Ret("upgrade", w, TRUE, Id(w.state, w.index, w.obj))
    /\ UNCHANGED <<entries, next, grabs, releases, events, weaks, gc, fatal, log,
                   grabsEnq, relsEnq>>

\* WeakId::upgrade(lib), lib being the modelled Scene (alive, so the Weak
\* resolves): a handle is built when lib's slab holds the index; no queue is
\* touched.
WeakIdUpgrade(w) ==
    /\ OwnerFree
    /\ IF SlabContains(entries, w.index)
       THEN /\ made < MaxHandles
            /\ ids' = ids (+) SetToBag({Id(w.state, w.index, SlabGet(entries, w.index).data)})
            /\ made' = made + 1
            /\ ret' = Ret("upgrade", w, TRUE,
                           Id(w.state, w.index, SlabGet(entries, w.index).data))
       ELSE /\ ret' = Ret("upgrade", w, FALSE, NoId)
            /\ UNCHANGED <<ids, made>>
    /\ UNCHANGED <<entries, next, grabs, releases, events, weaks, gc, fatal, log,
                   grabsEnq, relsEnq>>

\* Dropping the Scene: its slab is dropped and with it every entry still in
\* it, each running Drop for Entry; the handles keep the shared State, so
\* they can still be cloned and dropped afterwards.
DropScene ==
    /\ OwnerFree
    /\ IF \A i \in Indices :
              SlabContains(entries, i) => Entry_drop(SlabGet(entries, i))
       THEN /\ gc' = "dropped"
            /\ fatal' = fatal
       ELSE /\ fatal' = "assert_refs_zero"
            /\ gc' = gc
    /\ ret' = Ret("drop_scene", NoId, FALSE, NoId)
    /\ UNCHANGED <<entries, next, grabs, releases, events, ids, weaks, log,
                   grabsEnq, relsEnq, made>>

-----------------------------------------------------------------------------
(* Scene::garbage_collect as the owner thread runs it while other threads  *)
(* push: one queue operation per step.                                     *)

GcBegin ==
    /\ OwnerFree
    /\ gc' = "grabs"
    /\ UNCHANGED <<entries, next, grabs, releases, events, ids, weaks, fatal, ret,
                   log, grabsEnq, relsEnq, made>>

\* `while let Some(id) = self.state.grabs.pop()`: one pop.
GcGrab ==
    /\ Running
    /\ gc = "grabs"
    /\ IF grabs = <<>>
       THEN /\ gc' = "releases"
            /\ UNCHANGED <<entries, next, grabs, releases, events, log, fatal>>
       ELSE /\ SetStore(GrabStep(Store))
            /\ gc' = gc
    /\ UNCHANGED <<ids, weaks, ret, grabsEnq, relsEnq, made>>

\* `while let Some(id) = self.state.releases.pop()`: one pop.
GcRelease ==
    /\ Running
    /\ gc = "releases"
    /\ IF releases = <<>>
       THEN /\ gc' = "idle"
            /\ ret' = Ret("garbage_collect", NoId, FALSE, NoId)
            /\ UNCHANGED <<entries, next, grabs, releases, events, log, fatal>>
       ELSE /\ SetStore(ReleaseStep(Store))
            /\ gc' = gc
            /\ ret' = ret
    /\ UNCHANGED <<ids, weaks, grabsEnq, relsEnq, made>>

-----------------------------------------------------------------------------
\* Every operation of the API, called one after another.
Next ==
    \/ Insert
    \/ GarbageCollect
    \/ ClearEvents
    \/ \E i \in Indices : SceneId(i)
    \/ \E h \in LiveIds \cup ForeignIds : Get(h)
    \/ \E h \in LiveIds \cup ForeignIds : GetMut(h)
    \/ \E h \in LiveIds : IdClone(h)
    \/ \E h \in LiveIds : IdDrop(h)
    \/ \E h \in LiveIds : IdDowngrade(h)
    \/ \E w \in LiveWeaks : WeakIdClone(w)
    \/ \E w \in LiveWeaks : WeakIdUpgrade(w)

Spec == Init /\ [][Next]_vars

\* The same without WeakId::upgrade.
NextNoUpgrade ==
    \/ Insert
    \/ GarbageCollect
    \/ ClearEvents
    \/ \E i \in Indices : SceneId(i)
    \/ \E h \in LiveIds \cup ForeignIds : Get(h)
    \/ \E h \in LiveIds \cup ForeignIds : GetMut(h)
    \/ \E h \in LiveIds : IdClone(h)
    \/ \E h \in LiveIds : IdDrop(h)
    \/ \E h \in LiveIds : IdDowngrade(h)
    \/ \E w \in LiveWeaks : WeakIdClone(w)

SpecNoUpgrade == Init /\ [][NextNoUpgrade]_vars

\* The life of a Scene up to its drop, and of its handles beyond it.
NextTeardown ==
    \/ Insert
    \/ GarbageCollect
    \/ DropScene
    \/ \E h \in LiveIds : IdClone(h)
    \/ \E h \in LiveIds : IdDrop(h)
    \/ \E h \in LiveIds : IdDowngrade(h)
    \/ \E w \in LiveWeaks : WeakIdUpgrade(w)

SpecTeardown == Init /\ [][NextTeardown]_vars

\* The owner thread inserts and collects; other threads clone and drop the
\* handles they hold at any moment, also while a pass is running.
NextConc ==
    \/ Insert
    \/ GcBegin
    \/ GcGrab
    \/ GcRelease
    \/ \E h \in LiveIds : IdClone(h)
    \/ \E h \in LiveIds : IdDrop(h)

SpecConc == Init /\ [][NextConc]_vars

-----------------------------------------------------------------------------
(* Properties                                                              *)

\* The indices that have been inserted at least once.
Inserted == {i \in Indices : i < Len(entries)}

\* The count of the entry at index i.
Refs(i) == SlabGet(entries, i).refs

\* The handle's own entry is in the table: its index is occupied, by the
\* payload the handle was made for.
Alive(h) ==
    /\ SlabContains(entries, h.index)
    /\ SlabGet(entries, h.index).data = h.obj

Returned(op) == ret.op = op /\ fatal = "none"

\* C1: when garbage_collect has just returned (operations run one after
\* another, no upgrade), every index inserted so far has: the entry is in the
\* table iff 1 + grabs pushed - releases pushed (for the index, since its
\* latest insertion) is not zero, and then the entry's count is that value.
C1_CountIsOnePlusGrabsMinusReleases ==
    Returned("garbage_collect") =>
        \A i \in Inserted :
            LET v == 1 + grabsEnq[i] - relsEnq[i]
            IN  /\ SlabContains(entries, i) <=> v # 0
                /\ SlabContains(entries, i) => Refs(i) = v

\* C1 witness: a pass has returned leaving one entry with count 2 and one
\* index whose entry was removed.
C1_Witness ==
    /\ Returned("garbage_collect")
    /\ \E i \in Inserted : SlabContains(entries, i) /\ Refs(i) = 2
    /\ \E i \in Inserted : ~SlabContains(entries, i)

\* C2: every live strong handle, however obtained, has its own entry in the
\* table (not removed, index not given to another object).
C2_StrongHandleKeepsSlot == \A h \in LiveIds : Alive(h)

\* C3: in the sequence of all events ever pushed, between any two New(i)
\* there is a Drop(i).
C3_DropBeforeReuse ==
    \A a, b \in DOMAIN log :
        (a < b /\ log[a].type = "New" /\ log[b] = log[a]) =>
            \E c \in DOMAIN log : a < c /\ c < b /\ log[c] = EventDrop(log[a].id)

\* C3 witness: an index has been inserted, removed and inserted again.
C3_Witness ==
    \E a, b \in DOMAIN log :
        a < b /\ log[a].type = "New" /\ log[b] = log[a]

\* C4: with clone and drop running beside a pass, the pass never hits a
\* fatal condition and no entry is removed while a live strong handle to it
\* exists.
C4_ConcurrentPassSafe ==
    /\ fatal = "none"
    /\ \A h \in LiveIds : Alive(h)

\* The store after the handle h just obtained is dropped and a pass is run.
AfterDropAndCollect(st, h) ==
    Collect([st EXCEPT !.releases = Append(@, h.index)])

\* C5: a successful upgrade pushes exactly one grab for its index, as
\* Scene::id does, so that dropping the upgraded handle and collecting leaves
\* the table as a collection without the upgrade would.
C5_UpgradeGrabsLikeSceneId ==
    [][(ret'.op = "upgrade" /\ ret'.found) =>
          /\ grabs' = Append(grabs, ret'.arg.index)
          /\ AfterDropAndCollect(Store', ret'.out).entries = Collect(Store).entries
      ]_vars

\* C6: an upgrade of a weak handle whose own entry has been removed returns
\* nothing, whatever was inserted since.
C6_UpgradeFailsAfterRemoval ==
    (Returned("upgrade") /\ ~Alive(ret.arg)) => ~ret.found

\* C7: upgrade returns a handle iff the table holds an entry at the weak
\* handle's index; the handle returned carries that index; the table and
\* every count are left as they were.
C7_UpgradeIffPresent ==
    [][ret'.op = "upgrade" =>
          /\ ret'.found <=> SlabContains(entries, ret'.arg.index)
          /\ ret'.found => /\ ret'.out.index = ret'.arg.index
                           /\ ids' = ids (+) SetToBag({ret'.out})
          /\ ~ret'.found => /\ ret'.out = NoId
                            /\ ids' = ids
          /\ entries' = entries
          /\ next' = next
      ]_vars

\* C7 witness: an upgrade has returned a handle, and the weak handle's own
\* entry is in the table.
C7_Witness == Returned("upgrade") /\ ret.found /\ Alive(ret.arg)

\* C8: get and get_mut given a handle of another Scene end in the assertion's
\* panic and return no view, also when this Scene holds an entry at the
\* handle's index; given a handle of this Scene the assertion passes.
C8_ForeignHandleRejected ==
    ret.op \in {"get", "get_mut"} =>
        IF ret.arg.state # SceneState
        THEN fatal = "assert_ptr_eq" /\ ~ret.found /\ ret.out = NoId
        ELSE fatal # "assert_ptr_eq"

\* C8 witness: get_mut was given a foreign handle whose index is occupied in
\* this Scene.
C8_Witness ==
    /\ ret.op = "get_mut"
    /\ ret.arg.state = OtherState
    /\ SlabContains(entries, ret.arg.index)

\* C9: Scene::id(index) on an occupied index pushes exactly one grab for it
\* and returns a handle with that index; on an empty index it returns nothing
\* and leaves both queues, the table and the event buffer as they were.
C9_SceneIdGrabsOrNothing ==
    [][ret'.op = "id" =>
          IF SlabContains(entries, ret'.arg.index)
          THEN /\ ret'.found
               /\ ret'.out.index = ret'.arg.index
               /\ grabs' = Append(grabs, ret'.arg.index)
               /\ ids' = ids (+) SetToBag({ret'.out})
          ELSE /\ ~ret'.found
               /\ ret'.out = NoId
               /\ UNCHANGED <<grabs, releases, entries, next, events, ids>>
      ]_vars

\* C9 witness: Scene::id returned nothing for an index whose entry had been
\* removed, while grabs were pending.
C9_Witness ==
    /\ Returned("id")
    /\ ~ret.found
    /\ ret.arg.index \in Inserted
    /\ grabs # <<>>

\* The occupied cells of a store: index, payload and count.
Table(st) ==
    {<<i, SlabGet(st.entries, i)>> : i \in {j \in Indices : SlabContains(st.entries, j)}}

\* The store after h is cloned and the clone dropped at once.
CloneThenDrop(st, h) ==
    [st EXCEPT !.grabs = Append(@, h.index), !.releases = Append(@, h.index)]

\* C10: cloning a live handle of an entry of the table and dropping the
\* clone, then collecting, leaves the counts, the table and the event buffer
\* as collecting alone does.
C10_CloneDropCancels ==
    OwnerFree =>
        \A h \in LiveIds :
            Alive(h) =>
                LET a == Collect(Store)
                    b == Collect(CloneThenDrop(Store, h))
                IN  /\ Table(b) = Table(a)
                    /\ b.events = a.events
                    /\ b.fatal = a.fatal

\* Number of occurrences of x in the sequence q.
CountIn(q, x) == Cardinality({k \in DOMAIN q : q[k] = x})

\* The events pushed by the step.
Pushed == SubSeq(log', Len(log) + 1, Len(log'))

\* C11: insert pushes exactly one New with the index returned, every removal
\* of an entry pushes exactly one Drop with its index, only garbage_collect
\* pushes Drop, and no other call pushes anything.
C11_EventsExactlyOnce ==
    [][/\ SubSeq(log', 1, Len(log)) = log
       /\ events' = IF ret'.op = "clear_events" THEN <<>> ELSE events \o Pushed
       /\ ret'.op = "insert" => Pushed = <<EventNew(ret'.out.index)>>
       /\ ret'.op = "garbage_collect" =>
              \A i \in Indices :
                  /\ CountIn(Pushed, EventNew(i)) = 0
                  /\ CountIn(Pushed, EventDrop(i)) =
                        IF SlabContains(entries, i) /\ ~SlabContains(entries', i)
                        THEN 1 ELSE 0
       /\ ret'.op \notin {"insert", "garbage_collect"} =>
              /\ Pushed = <<>>
              /\ \A i \in Indices : SlabContains(entries', i) = SlabContains(entries, i)
      ]_vars

\* C11 witness: an index was inserted twice and removed once in between.
C11_Witness ==
    \E i \in Indices :
        /\ CountIn(log, EventNew(i)) = 2
        /\ CountIn(log, EventDrop(i)) = 1
        /\ SlabContains(entries, i)

\* The entries of the table before the step are there after it, unchanged.
EntriesKept ==
    \A i \in Indices :
        SlabContains(entries, i) =>
            /\ SlabContains(entries', i)
            /\ SlabGet(entries', i) = SlabGet(entries, i)

\* C12: clone changes only the grabs queue (its index appended), drop only
\* the releases queue (its index appended), downgrade and WeakId::clone no
\* queue; they, Scene::id and upgrade leave the table, the counts and the
\* event buffer unchanged; insert leaves every entry already there unchanged;
\* only garbage_collect changes a count or removes an entry.
C12_OnlyCollectTouchesCounts ==
    [][/\ ret'.op = "clone" =>
              /\ grabs' = Append(grabs, ret'.arg.index)
              /\ UNCHANGED <<releases, entries, next, events>>
       /\ ret'.op = "drop" =>
              /\ releases' = Append(releases, ret'.arg.index)
              /\ UNCHANGED <<grabs, entries, next, events>>
       /\ ret'.op \in {"downgrade", "weak_clone"} =>
              UNCHANGED <<grabs, releases, entries, next, events>>
       /\ ret'.op \in {"id", "upgrade"} => UNCHANGED <<entries, next, events>>
       /\ ret'.op # "garbage_collect" => EntriesKept
      ]_vars

\* C12 witness: a handle was dropped while grabs and an earlier release were
\* pending, and the entry is still in the table with its count.
C12_Witness ==
    /\ Returned("drop")
    /\ grabs # <<>>
    /\ Len(releases) >= 2
    /\ SlabContains(entries, ret.arg.index)

\* Number of Drop(i) events pushed since the latest New(i).
DropsSinceNew(i) ==
    Cardinality({k \in DOMAIN log :
                    /\ log[k] = EventDrop(i)
                    /\ \A j \in DOMAIN log : log[j] = EventNew(i) => j < k})

RefsOrZero(es, i) == IF SlabContains(es, i) THEN SlabGet(es, i).refs ELSE 0

\* The number of live strong handles carrying index i.
HandlesOf(i) ==
    LET hs == {h \in LiveIds : h.index = i}
        RECURSIVE Sum(_)
        Sum(S) == IF S = {} THEN 0
                  ELSE LET h == CHOOSE x \in S : TRUE
                       IN  CopiesIn(h, ids) + Sum(S \ {h})
    IN  Sum(hs)

\* C13: a pass applies every pending grab before it applies any release: its
\* first loop empties the grabs queue and leaves the releases queue and the
\* events alone, the second loop runs on that result. So a pass started on an
\* entry of count 1 whose handle was cloned and whose original was dropped
\* (one grab pending, one live handle left) keeps the entry with count 1 and
\* pushes no Drop event for it.
C13_GrabsBeforeReleases ==
    [][ret'.op = "garbage_collect" =>
          LET g == DrainGrabs(Store)
          IN  /\ g.releases = releases
              /\ g.events = events
              /\ Collect(Store) = DrainReleases(g)
              /\ \A i \in Indices :
                    ( /\ SlabContains(entries, i)
                      /\ Refs(i) = 1
                      /\ CountIn(grabs, i) = 1
                      /\ HandlesOf(i) = 1 ) =>
                        /\ SlabContains(entries', i)
                        /\ RefsOrZero(entries', i) = 1
                        /\ CountIn(Pushed, EventDrop(i)) = 0
      ]_vars

\* C14: between operations every entry of the table has a count of at least
\* 1 (the release that brings a count to zero removes the entry in the same
\* step of the pass).
C14_NoZeroCountInTable ==
    \A i \in Indices : SlabContains(entries, i) => Refs(i) >= 1

\* C14 witness: a pass has returned that removed one entry and kept another.
C14_Witness ==
    /\ Returned("garbage_collect")
    /\ \E i \in Inserted : ~SlabContains(entries, i) /\ DropsSinceNew(i) = 1
    /\ \E i \in Inserted : SlabContains(entries, i) /\ relsEnq[i] = 0

\* The count of index i in a table, 0 when the index holds no entry.

\* No live strong handle carries index i.
Unreferenced(i) == \A h \in LiveIds : h.index # i

\* C15: a pass applies every grab and release pending at its start exactly
\* once, so a pass run when every strong handle of an entry has been dropped
\* removes that entry and pushes its Drop event.
C15_PendingAppliedByNextPass ==
    [][ret'.op = "garbage_collect" =>
          /\ grabs' = <<>>
          /\ releases' = <<>>
          /\ \A i \in Indices :
                SlabContains(entries, i) =>
                    RefsOrZero(entries', i) =
                        Refs(i) + CountIn(grabs, i) - CountIn(releases, i)
          /\ \A i \in Indices :
                (SlabContains(entries, i) /\ Unreferenced(i)) =>
                    /\ ~SlabContains(entries', i)
                    /\ CountIn(Pushed, EventDrop(i)) = 1
      ]_vars

\* C16: in single-threaded runs without upgrade no bookkeeping panic is
\* reached: every index popped in a pass has its entry, no count is
\* decremented below zero, an entry is removed only with count zero, and get
\* and get_mut given a handle of this Scene find the handle's own entry.
C16_NoBookkeepingPanic ==
    /\ fatal \notin {"unwrap_none", "sub_overflow", "assert_refs_zero"}
    /\ (ret.op \in {"get", "get_mut"} /\ ret.arg.state = SceneState) =>
          /\ ret.found
          /\ ret.out = Id(SceneState, ret.arg.index, ret.arg.obj)

\* C16 witness: get_mut returned the view of an entry after a pass had
\* removed another entry, with grabs and releases pending.
C16_Witness ==
    /\ Returned("get_mut")
    /\ ret.found
    /\ \E i \in Inserted : ~SlabContains(entries, i)
    /\ grabs # <<>>
    /\ releases # <<>>

\* C17: a pass in which no other thread enqueues ends normally having
\* applied exactly the grabs and releases pending at its start, and leaves
\* both queues empty.
C17_PassDrainsBothQueues ==
    [][ret'.op = "garbage_collect" =>
          /\ fatal' = "none"
          /\ grabs' = <<>>
          /\ releases' = <<>>
          /\ \A i \in Indices :
                RefsOrZero(entries', i) =
                    RefsOrZero(entries, i) + CountIn(grabs, i)
                        - CountIn(releases, i)
      ]_vars

HasVacant(es) == \E k \in DOMAIN es : es[k].tag = "Vacant"

\* C18: insert returns an index at which the table held no entry, creates
\* the entry there with count 1 and the given payload, leaves every other
\* entry as it was, and takes a freed index instead of growing the table
\* whenever one is available.
C18_InsertTakesFreeIndex ==
    [][ret'.op = "insert" =>
          LET k == ret'.out.index
          IN  /\ ~SlabContains(entries, k)
              /\ SlabContains(entries', k)
              /\ SlabGet(entries', k) = Entry(ret'.out.obj, 1)
              /\ \A i \in Indices \ {k} :
                    /\ SlabContains(entries', i) = SlabContains(entries, i)
                    /\ SlabContains(entries, i) =>
                          SlabGet(entries', i) = SlabGet(entries, i)
              /\ HasVacant(entries) => Len(entries') = Len(entries)
              /\ ~HasVacant(entries) => k = Len(entries)
      ]_vars

\* C18 witness: insert, drop of the only handle, a pass, and a second insert
\* that returned the same index.
C18_Witness ==
    /\ Returned("insert")
    /\ log = <<EventNew(0), EventDrop(0), EventNew(0)>>
    /\ ret.out.index = 0
    /\ Len(entries) = 1
    /\ Refs(0) = 1

\* C19: a pass run immediately after a pass that returned changes nothing:
\* the table, the counts, the event buffer and both (empty) queues stay as
\* the first pass left them.
C19_SecondPassChangesNothing ==
    Returned("garbage_collect") =>
        /\ grabs = <<>>
        /\ releases = <<>>
        /\ Collect(Store) = Store

\* C19 witness: a pass returned having removed one entry and kept another
\* with count 2, its Drop event still in the buffer.
C19_Witness ==
    /\ Returned("garbage_collect")
    /\ \E i \in Inserted : ~SlabContains(entries, i)
    /\ \E i \in Indices : SlabContains(entries, i) /\ Refs(i) = 2
    /\ \E k \in DOMAIN events : events[k].type = "Drop"

\* C20: the count-is-zero assertion of Drop for Entry never fails at a
\* removal made by a pass; dropping the Scene trips it exactly when the
\* table still holds an entry, and so succeeds only once every strong handle
\* has been dropped and the passes have removed every entry.
C20_TeardownNeedsAllHandlesDropped ==
    /\ fatal = "assert_refs_zero" => ret.op = "drop_scene"
    /\ ret.op = "drop_scene" =>
          /\ fatal = "none" <=> \A i \in Indices : ~SlabContains(entries, i)
          /\ fatal = "none" => LiveIds = {}
====
